---- MODULE Spec2Model ----
(***************************************************************************)
(* thoth package-releases-job (src/app.py): one run of cli() walks every   *)
(* enabled Python package index, lists the versions of every candidate     *)
(* package, creates the missing (name, version, index_url) entities in the *)
(* graph database, fires the configured release notifications and pushes   *)
(* its metrics.  The index and the graph database are external: the model  *)
(* keeps their state (releases, broken, store) and answers the calls the   *)
(* job makes from it.                                                      *)
(***************************************************************************)
EXTENDS Integers, Sequences, FiniteSets, TLC

\* ------------------------------------------------------------------ bounds
MaxRuns == 2        \* consecutive runs of the job over the same world
MaxReleases == 2    \* releases the indices host
MaxTriggers == 2    \* triggers configured for a monitored package

\* The enabled indices in the order get_python_package_index_all(enabled=True)
\* returns them, the package names in the order a catalog or the store lists
\* them, and the versions in the order an index lists them.
IndexOrder == <<"A", "B">>
NameOrder == <<"p", "q">>
VersionOrder == <<"1.0", "1.1">>

Range(s) == {s[x] : x \in DOMAIN s}
Indexes == Range(IndexOrder)
Names == Range(NameOrder)
Versions == Range(VersionOrder)
\* A release is <<index_url, package_name, package_version>>; an entity of the
\* store is <<package_name, package_version, index_url>>.
Releases == Indexes \X Names \X Versions
\* An index the store lists as disabled; it hosts every version of every package.
DisabledIndex == "Z"
Entities == Names \X Versions \X Indexes

VARIABLES
    releases,       \* what the indices host
    broken,         \* <<index_url, name>> whose version listing fails (not NotFound)
    store,          \* the entities the graph database holds
    entry,          \* "cli": the job's command line; "call": package_releases_update called directly
    only_if_package_seen, package_names_file, package_names_file_jsonpath,
    monitoring_config,      \* cli's options
    file_names,     \* what the JSONPath finds in the package names file
    config_doc,     \* what yaml.safe_load gives for the monitoring configuration
    pushgateway_url,        \* _THOTH_METRICS_PUSHGATEWAY_URL
    pc, exc, status,
    package_names, monitored_packages, seen_param,  \* package_releases_update's arguments
    sources, i, candidates, k, package_versions, j, \* its loops
    added, notified,        \* _METRIC_PACKAGES_NEW_AND_ADDED, _METRIC_PACKAGES_NEW_AND_NOTIFIED
    run, store0, io, pushes, retrieved, create_calls, log, new_creates, new_notified,
    last, prev_completed    \* the record of what the run has done

world == <<releases, broken>>
options == <<entry, only_if_package_seen, package_names_file, package_names_file_jsonpath,
             monitoring_config, file_names, config_doc, pushgateway_url>>
loops == <<sources, i, candidates, k, package_versions, j>>
metrics == <<added, notified>>
vars == <<releases, broken, store, entry, only_if_package_seen, package_names_file,
          package_names_file_jsonpath, monitoring_config, file_names, config_doc,
          pushgateway_url, pc, exc, status, package_names, monitored_packages, seen_param,
          sources, i, candidates, k, package_versions, j, added, notified,
          run, store0, io, pushes, retrieved, create_calls, log, new_creates, new_notified,
          last, prev_completed>>

\* ----------------------------------------------------------- Python values
\* An Optional[list]: None, or a list.  Python's truth value of it.
NoneList == [none |-> TRUE, items |-> <<>>]
List(s) == [none |-> FALSE, items |-> s]
Truthy(l) == ~l.none /\ Len(l.items) > 0

\* The monitoring configuration: None, or a dict from package name to its
\* entry.  A package's entry is absent, null, or holds the list of its
\* triggers; a trigger is its URL template.
Absent == [kind |-> "absent", triggers |-> <<>>]
Null == [kind |-> "null", triggers |-> <<>>]
Entry(t) == [kind |-> "entry", triggers |-> t]
EmptyDict == [n \in Names |-> Absent]
NoneDict == [none |-> TRUE, entries |-> EmptyDict]
Dict(f) == [none |-> FALSE, entries |-> f]
TruthyDict(d) == ~d.none /\ \E n \in Names : d.entries[n].kind # "absent"

Ordered(order, S) == SelectSeq(order, LAMBDA x : x \in S)

\* ------------------------------------------------------------ the indices
\* What an index hosts.
Hosts(url, n, v) == url = DisabledIndex \/ <<url, n, v>> \in releases

\* Source.get_packages(): the names the index hosts.
GetPackages(url) == Ordered(NameOrder, {n \in Names : \E v \in Versions : Hosts(url, n, v)})

\* Source.get_package_versions(name): the versions, or NotFound when the index
\* does not host the package, or another failure.
GetPackageVersions(url, name) ==
    IF <<url, name>> \in broken THEN [result |-> "Error", versions |-> <<>>]
    ELSE IF \A v \in Versions : ~Hosts(url, name, v)
         THEN [result |-> "NotFound", versions |-> <<>>]
    ELSE [result |-> "ok",
          versions |-> Ordered(VersionOrder, {v \in Versions : Hosts(url, name, v)})]

\* -------------------------------------------------------------- the store
\* GraphDatabase.get_python_package_version_entities_names_all()
KnownNames(s) == Ordered(NameOrder, {e[1] : e \in s})

\* GraphDatabase.create_python_package_version_entity(name, version, index_url,
\* only_if_package_seen=...): None for a package never seen when asked so,
\* otherwise (entity, existed).
CreateResult(s, name, version, url, only_if_seen) ==
    IF only_if_seen /\ name \notin {e[1] : e \in s} THEN "none"
    ELSE IF <<name, version, url>> \in s THEN "existed"
    ELSE "new"

StoreAfter(s, name, version, url, result) ==
    IF result = "new" THEN s \cup {<<name, version, url>>} ELSE s

\* ---------------------------------------------------------- notifications
\* A trigger of the configuration: its URL template, as the sequence of its
\* pieces (literal text and replacement fields), and its tls_verify key
\* ("unset" when the key is missing).
Trigger(url, tls_verify) == [url |-> url, tls_verify |-> tls_verify]

HttpsTemplate == <<"https://", "hook/", "{package_name}">>
HttpTemplate == <<"http://", "hook/", "{package_name}">>
EnvTemplate == <<"{HOOK_URL}", "/", "{package_version}">>
UnknownFieldTemplate == <<"https://", "hook/", "{channel}">>
OtherTemplate == <<"http://", "other/", "{index_url}">>

\* The pieces of a template that are replacement fields.
Fields == {"{package_name}", "{package_version}", "{index_url}",
           "{thoth_deployment_name}", "{HOOK_URL}", "{channel}"}

\* os.environ of the process, and THOTH_DEPLOYMENT_NAME.
Environ == [f \in {"{HOOK_URL}"} |-> <<"https://", "hooks.internal">>]
DeploymentName == "deployment"

\* Lines 114-120: the keyword arguments of str.format.
FormatArgs(name, version, url) ==
    [f \in DOMAIN Environ \cup {"{package_name}", "{package_version}", "{index_url}",
                                "{thoth_deployment_name}"} |->
        IF f = "{package_name}" THEN <<name>>
        ELSE IF f = "{package_version}" THEN <<version>>
        ELSE IF f = "{index_url}" THEN <<url>>
        ELSE IF f = "{thoth_deployment_name}" THEN <<DeploymentName>>
        ELSE Environ[f]]

\* str.format(**args): every field replaced by its value; a field without a
\* value raises KeyError.
RECURSIVE Format(_, _)
Format(template, args) ==
    IF template = <<>> THEN [ok |-> TRUE, text |-> <<>>]
    ELSE LET piece == Head(template)
             rest == Format(Tail(template), args) IN
         IF piece \in Fields /\ piece \notin DOMAIN args THEN [ok |-> FALSE, text |-> <<>>]
         ELSE IF ~rest.ok THEN rest
         ELSE [ok |-> TRUE,
               text |-> (IF piece \in Fields THEN args[piece] ELSE <<piece>>) \o rest.text]

\* str.startswith("https://")
StartsWithHttps(text) == Len(text) > 0 /\ text[1] = "https://"

\* Lines 109-110: the keyword arguments of requests.post ("none": no verify
\* argument); the test reads the URL of the trigger as configured.
VerifyArgument(trigger) ==
    IF StartsWithHttps(trigger.url)
    THEN (IF trigger.tls_verify = "unset" THEN "true" ELSE trigger.tls_verify)
    ELSE "none"

\* Lines 107-139: the body of the loop for one trigger; ok tells whether the
\* POST, when it is made, succeeds.
Deliver(trigger, args, ok) ==
    LET rendered == Format(trigger.url, args) IN
    IF ~rendered.ok
    THEN [trigger |-> trigger, posted |-> FALSE, url |-> <<>>, verify |-> "none",
          outcome |-> "render failed"]
    ELSE [trigger |-> trigger, posted |-> TRUE, url |-> rendered.text,
          verify |-> VerifyArgument(trigger),
          outcome |-> IF ok THEN "delivered" ELSE "failed"]

\* Variant of ReleaseNotification: the triggers of every package of the
\* configuration are used, whatever the package released.
ReleaseNotificationEveryTrigger(monitored, name, version, url, delivered) ==
    LET e == monitored.entries[name]
        every == monitored.entries[NameOrder[1]].triggers
                    \o monitored.entries[NameOrder[2]].triggers IN
    IF e.kind = "null"
    THEN [raised |-> TRUE, attempts |-> 0, was_triggered |-> FALSE, posts |-> <<>>]
    ELSE LET posts == [t \in 1..Len(every) |->
                          Deliver(every[t], FormatArgs(name, version, url),
                                  t \in DOMAIN delivered /\ delivered[t])] IN
         [raised |-> FALSE,
          attempts |-> Len(posts),
          was_triggered |-> \E t \in 1..Len(posts) : posts[t].outcome = "delivered",
          posts |-> posts]

\* Variant of ReleaseNotification: the exception of a failed delivery is not
\* caught and ends the loop.
ReleaseNotificationFailureRaises(monitored, name, version, url, delivered) ==
    LET e == monitored.entries[name] IN
    IF e.kind = "null"
    THEN [raised |-> TRUE, attempts |-> 0, was_triggered |-> FALSE, posts |-> <<>>]
    ELSE LET posts == [t \in 1..Len(e.triggers) |->
                          Deliver(e.triggers[t], FormatArgs(name, version, url), delivered[t])]
             failed == {t \in 1..Len(posts) : posts[t].outcome # "delivered"} IN
         IF failed = {}
         THEN [raised |-> FALSE, attempts |-> Len(posts),
               was_triggered |-> posts # <<>>, posts |-> posts]
         ELSE LET first == CHOOSE t \in failed : \A u \in failed : t <= u IN
              [raised |-> TRUE, attempts |-> first, was_triggered |-> FALSE,
               posts |-> SubSeq(posts, 1, first)]

\* Variant of ReleaseNotification: was_triggered is set when a delivery is
\* attempted, not when it succeeded.
ReleaseNotificationAnyAttempt(monitored, name, version, url, delivered) ==
    LET e == monitored.entries[name] IN
    IF e.kind = "null"
    THEN [raised |-> TRUE, attempts |-> 0, was_triggered |-> FALSE, posts |-> <<>>]
    ELSE LET posts == [t \in 1..Len(e.triggers) |->
                          Deliver(e.triggers[t], FormatArgs(name, version, url), delivered[t])] IN
         [raised |-> FALSE,
          attempts |-> Len(posts),
          was_triggered |-> Len(posts) > 0,
          posts |-> posts]

\* release_notification(): one delivery attempt per trigger of the package;
\* delivered[t] tells whether the POST to trigger t succeeds.  A null entry
\* has no .get and raises.
ReleaseNotification(monitored, name, version, url, delivered) ==
    LET e == monitored.entries[name] IN
    IF e.kind = "null"
    THEN [raised |-> TRUE, attempts |-> 0, was_triggered |-> FALSE, posts |-> <<>>]
    ELSE LET posts == [t \in 1..Len(e.triggers) |->
                          Deliver(e.triggers[t], FormatArgs(name, version, url), delivered[t])] IN
         [raised |-> FALSE,
          attempts |-> Len(posts),
          was_triggered |-> \E t \in 1..Len(posts) : posts[t].outcome = "delivered",
          posts |-> posts]

\* Variant of ShouldNotify: the sentinel is not told from an entity.
ShouldNotifyAnyResult(result, monitored) == TruthyDict(monitored)

\* Line 211: `if added and monitored_packages`; added is the (entity, existed)
\* pair, which is true whatever existed is.
ShouldNotify(result, monitored) == result # "none" /\ TruthyDict(monitored)

\* Variants of AddedAfter: the metric counts every entity the store returned;
\* the metric counts the entities that existed.
AddedAfterAnyEntity(n, result) == IF result # "none" THEN n + 1 ELSE n
AddedAfterExisting(n, result) == IF result = "existed" THEN n + 1 ELSE n

\* Line 195-202: the "added" metric after a create call.
AddedAfter(n, result) == IF result = "new" THEN n + 1 ELSE n

\* Lines 213-225: the "notified" metric after the notification returned or raised.
NotifiedAfter(n, called, note) == IF called /\ ~note.raised THEN n + 1 ELSE n

\* --------------------------------------------------------------- cli()
\* Variant of ArgsError: the third check is missing.
ArgsErrorNoExclusion(seen, file, jsonpath) ==
    IF jsonpath # "" /\ file = "" THEN "ValueError: JSON path without file"
    ELSE IF jsonpath = "" /\ file # "" THEN "ValueError: JSON path required"
    ELSE ""

\* Variant of ArgsError: a JSON path without a file is let through.
ArgsErrorNoFileRequired(seen, file, jsonpath) ==
    IF jsonpath = "" /\ file # "" THEN "ValueError: JSON path required"
    ELSE IF seen /\ file # "" THEN "ValueError: only one method allowed"
    ELSE ""

\* Lines 289-301: the option combinations cli refuses.
ArgsError(seen, file, jsonpath) ==
    IF jsonpath # "" /\ file = "" THEN "ValueError: JSON path without file"
    ELSE IF jsonpath = "" /\ file # "" THEN "ValueError: JSON path required"
    ELSE IF seen /\ file # "" THEN "ValueError: only one method allowed"
    ELSE ""

NoLast == [op |-> "none", url |-> "", name |-> "", version |-> "", result |-> "",
           only_if_seen |-> FALSE, called |-> FALSE, raised |-> FALSE, attempts |-> 0,
           was_triggered |-> FALSE, at |-> <<0, 0>>, posts |-> <<>>,
           added0 |-> 0, notified0 |-> 0]

\* The external calls of the startup, in the order cli makes them.
FailPoints == {"", "open", "connect", "names", "config"}

\* Lines 280-338: the options are checked, the package names file is read, the
\* graph database is connected, the known names are read and the monitoring
\* configuration is loaded.  `fail` is the external call that fails, if any.
Startup(fail) ==
    LET err == ArgsError(only_if_package_seen, package_names_file, package_names_file_jsonpath)
        reads == package_names_file # ""
        io1 == IF reads THEN {"open"} ELSE {}
        io2 == io1 \cup {"connect"}
        io3 == IF only_if_package_seen THEN io2 \cup {"names"} ELSE io2
        io4 == IF monitoring_config # "" THEN io3 \cup {"config"} ELSE io3
        names == IF only_if_package_seen THEN List(KnownNames(store))
                 ELSE IF reads THEN List(file_names.items)
                 ELSE NoneList
        stop(e, st, done) == [exc |-> e, status |-> st, io |-> done,
                              package_names |-> NoneList, monitored_packages |-> NoneDict]
    IN  IF err # "" THEN stop(err, "error", {})
        ELSE IF reads /\ fail = "open" THEN stop("OSError", "error", io1)
        ELSE IF reads /\ file_names.bad THEN stop("ValueError: not a string", "error", io1)
        ELSE IF reads /\ file_names.items = <<>> THEN stop("SystemExit", "exit 2", io1)
        ELSE IF fail = "connect" THEN stop("connection error", "error", io2)
        ELSE IF only_if_package_seen /\ fail = "names" THEN stop("store error", "error", io3)
        ELSE IF monitoring_config # "" /\ fail = "config" THEN stop("config error", "error", io4)
        ELSE [exc |-> "", status |-> "running", io |-> io4, package_names |-> names,
              monitored_packages |-> IF monitoring_config # "" THEN config_doc ELSE NoneDict]

CliStartup ==
    /\ pc = "start"
    /\ \E fail \in FailPoints :
        LET r == Startup(fail) IN
        /\ exc' = r.exc
        /\ status' = r.status
        /\ io' = r.io
        /\ package_names' = r.package_names
        /\ monitored_packages' = r.monitored_packages
        /\ pc' = IF r.status = "running" THEN "pass" ELSE "exit"
    \* line 342: package_releases_update is called without only_if_package_seen
    /\ seen_param' = FALSE
    /\ UNCHANGED <<world, store, options, loops, metrics, run, store0, pushes, retrieved,
                   create_calls, log, new_creates, new_notified, last, prev_completed>>

\* ------------------------------------------------ package_releases_update()
\* The pass ends, returning (e = "") or raising e: cli goes on to its finally
\* block, a direct call is over.
EndPass(e) ==
    /\ exc' = e
    /\ sources' = <<>> /\ i' = 0 /\ candidates' = <<>> /\ k' = 0
    /\ package_versions' = <<>> /\ j' = 0
    /\ pc' = IF entry = "cli" THEN "finally" ELSE "exit"
    /\ status' = IF entry = "cli" THEN status ELSE IF e = "" THEN "ok" ELSE "error"

\* Variant of EnabledIndexes: the disabled indices are listed too.
EveryIndex == IndexOrder \o <<DisabledIndex>>

\* Line 153: graph.get_python_package_index_all(enabled=True).
EnabledIndexes == IndexOrder

\* Lines 152-154: the enabled indices.
ListSources ==
    /\ pc = "pass"
    /\ io' = io \cup {"indexes"}
    /\ \E fails \in BOOLEAN :
        IF fails
        THEN EndPass("store error")
        ELSE /\ sources' = EnabledIndexes /\ i' = 1 /\ pc' = "index"
             /\ UNCHANGED <<exc, status, candidates, k, package_versions, j>>
    /\ last' = [NoLast EXCEPT !.op = "sources"]
    /\ UNCHANGED <<world, store, options, package_names, monitored_packages, seen_param,
                   metrics, run, store0, pushes,
                   retrieved, create_calls, log, new_creates, new_notified, prev_completed>>

\* Line 158: `package_names or package_index.get_packages()`.
UsesCatalog(names) == ~Truthy(names)
Candidates(names, url) == IF UsesCatalog(names) THEN GetPackages(url) ELSE names.items

\* Lines 156-158: the next index, or the end of the pass.
NextIndex ==
    /\ pc = "index"
    /\ IF i > Len(sources)
       THEN /\ EndPass("")
            /\ last' = [NoLast EXCEPT !.op = "return"]
            /\ UNCHANGED io
       ELSE LET url == sources[i]
                catalog == UsesCatalog(package_names)
            IN  /\ io' = IF catalog THEN io \cup {"packages"} ELSE io
                /\ \E fails \in BOOLEAN :
                    IF catalog /\ fails
                    THEN /\ EndPass("index error")
                         /\ last' = [NoLast EXCEPT !.op = "index", !.url = url,
                                                   !.result = "raised", !.at = <<i, 0>>]
                    ELSE /\ last' = [NoLast EXCEPT !.op = "index", !.url = url,
                                                   !.result = "ok", !.at = <<i, 0>>]
                         /\ candidates' = Candidates(package_names, url)
                         /\ k' = 1
                         /\ IF candidates' = <<>>
                            THEN i' = i + 1 /\ pc' = "index"
                            ELSE i' = i /\ pc' = "package"
                         /\ UNCHANGED <<exc, status, sources, package_versions, j>>
    /\ UNCHANGED <<world, store, options, package_names, monitored_packages, seen_param,
                   metrics, run, store0, pushes,
                   retrieved, create_calls, log, new_creates, new_notified, prev_completed>>

\* The loops' next position once package k of index i is done: line 168 and
\* 175 `continue`, and the end of the loop over its versions.
NextPackage ==
    IF k < Len(candidates)
    THEN k' = k + 1 /\ i' = i /\ pc' = "package"
    ELSE k' = k /\ i' = i + 1 /\ pc' = "index"

\* Variant of SkipPackage: `break` in place of `continue`.
BreakPackages == k' = k /\ i' = i + 1 /\ pc' = "index"

\* Lines 161-175: a failed version listing is logged and the package skipped.
SkipPackage == NextPackage

\* Lines 159-177: the versions of candidate k on index i.
GetVersions ==
    /\ pc = "package"
    /\ LET url == sources[i]
           name == candidates[k]
           got == GetPackageVersions(url, name)
       IN  /\ io' = io \cup {"versions"}
           /\ retrieved' = retrieved \cup {<<url, name>>}
           /\ last' = [NoLast EXCEPT !.op = "versions", !.url = url, !.name = name,
                                     !.result = got.result, !.at = <<i, k>>]
           /\ IF got.result # "ok"
              THEN SkipPackage /\ UNCHANGED <<package_versions, j>>
              ELSE /\ package_versions' = got.versions
                   /\ j' = 1
                   /\ IF got.versions = <<>>
                      THEN NextPackage
                      ELSE UNCHANGED <<i, k>> /\ pc' = "version"
    /\ UNCHANGED <<world, store, options, exc, status, package_names, monitored_packages,
                   seen_param, sources, candidates, metrics, run, store0, pushes,
                   create_calls, log, new_creates, new_notified, prev_completed>>

\* Lines 177-225: version j of the package is created in the store, counted
\* and notified.  The create call may fail, and nothing catches that.
CreateVersion ==
    /\ pc = "version"
    /\ LET url == sources[i]
           name == candidates[k]
           version == package_versions[j]
           result == CreateResult(store, name, version, url, seen_param)
           called == ShouldNotify(result, monitored_packages)
       IN  /\ io' = io \cup {"create"}
           /\ create_calls' = create_calls \cup {<<name, version, url>>}
           /\ \E fails \in BOOLEAN :
                IF fails
                THEN /\ EndPass("store error")
                     /\ last' = [NoLast EXCEPT !.op = "create", !.url = url, !.name = name,
                                    !.version = version, !.result = "raised",
                                    !.only_if_seen = seen_param, !.at = <<i, k>>,
                                    !.added0 = added, !.notified0 = notified]
                     /\ log' = Append(log, [at |-> <<i, k, j>>,
                                            entity |-> <<name, version, url>>,
                                            result |-> "raised", called |-> FALSE])
                     /\ UNCHANGED <<store, metrics, new_creates, new_notified>>
                ELSE \E delivered \in [1..Len(monitored_packages.entries[name].triggers) -> BOOLEAN] :
                     LET note == ReleaseNotification(monitored_packages, name, version, url, delivered) IN
                     /\ store' = StoreAfter(store, name, version, url, result)
                     /\ added' = AddedAfter(added, result)
                     /\ notified' = NotifiedAfter(notified, called, note)
                     /\ new_creates' = IF result = "new" THEN new_creates + 1 ELSE new_creates
                     /\ new_notified' = IF result = "new" /\ called /\ note.was_triggered
                                        THEN new_notified + 1 ELSE new_notified
                     /\ last' = [op |-> "create", url |-> url, name |-> name,
                                 version |-> version, result |-> result,
                                 only_if_seen |-> seen_param, called |-> called,
                                 raised |-> called /\ note.raised,
                                 attempts |-> IF called THEN note.attempts ELSE 0,
                                 was_triggered |-> called /\ note.was_triggered,
                                 at |-> <<i, k>>,
                                 posts |-> IF called THEN note.posts ELSE <<>>,
                                 added0 |-> added, notified0 |-> notified]
                     /\ log' = Append(log, [at |-> <<i, k, j>>,
                                            entity |-> <<name, version, url>>,
                                            result |-> result, called |-> called])
                     /\ IF j < Len(package_versions)
                        THEN j' = j + 1 /\ UNCHANGED <<pc, i, k>>
                        ELSE NextPackage /\ UNCHANGED j
                     /\ UNCHANGED <<exc, status, sources, candidates, package_versions>>
    /\ UNCHANGED <<world, options, package_names, monitored_packages, seen_param,
                   run, store0, pushes, retrieved,
                   prev_completed>>

\* Variant of PushesMetrics: the push does not look at the configuration.
PushesAlways(url) == TRUE

\* Line 346: the metrics are pushed when a push gateway is configured.
PushesMetrics(url) == url # ""

\* Lines 345-358: cli's finally block; a failed push is logged, and the pass's
\* exception, if any, goes on to end the process.
Finally ==
    /\ pc = "finally"
    /\ \E push_fails \in BOOLEAN :
        /\ pushes' = IF PushesMetrics(pushgateway_url) THEN pushes + 1 ELSE pushes
        /\ io' = IF PushesMetrics(pushgateway_url) THEN io \cup {"push"} ELSE io
        /\ last' = [NoLast EXCEPT !.op = "finally",
                       !.result = IF ~PushesMetrics(pushgateway_url) THEN "no push"
                                  ELSE IF push_fails THEN "push failed" ELSE "pushed"]
    /\ status' = IF exc = "" THEN "ok" ELSE "error"
    /\ pc' = "exit"
    /\ UNCHANGED <<world, store, options, exc, package_names, monitored_packages, seen_param,
                   loops, metrics, run, store0, retrieved, create_calls, log, new_creates,
                   new_notified, prev_completed>>

\* The job is run again, a new process with the same options, over the store
\* the run left.
NextRun ==
    /\ pc = "exit"
    /\ run < MaxRuns
    /\ run' = run + 1
    /\ prev_completed' = (status = "ok")
    /\ store0' = store
    /\ pc' = IF entry = "cli" THEN "start" ELSE "pass"
    /\ exc' = ""
    /\ status' = "running"
    /\ added' = 0 /\ notified' = 0
    /\ io' = {} /\ pushes' = 0 /\ retrieved' = {} /\ create_calls' = {} /\ log' = <<>>
    /\ new_creates' = 0 /\ new_notified' = 0 /\ last' = NoLast
    /\ UNCHANGED loops
    /\ IF entry = "cli"
       THEN package_names' = NoneList /\ monitored_packages' = NoneDict /\ seen_param' = FALSE
       ELSE UNCHANGED <<package_names, monitored_packages, seen_param>>
    /\ UNCHANGED <<world, store, options>>

Next == CliStartup \/ ListSources \/ NextIndex \/ GetVersions \/ CreateVersion
        \/ Finally \/ NextRun

\* ------------------------------------------------------------ the inputs
AtMostOne(S) == {{}} \cup {{x} : x \in S}
Worlds == {w \in SUBSET Releases : Cardinality(w) <= MaxReleases}
NameLists == {<<>>} \cup {<<n>> : n \in Names} \cup {<<n, m>> : n \in Names, m \in Names}
NoFile == [bad |-> FALSE, items |-> <<>>]
\* cli's package selection: the options and what the package names file holds.
Selection(seen, file, jsonpath, found) ==
    [seen |-> seen, file |-> file, jsonpath |-> jsonpath, found |-> found]
CatalogMode == Selection(FALSE, "", "", NoFile)
SeenMode == Selection(TRUE, "", "", NoFile)
FileModes == {Selection(FALSE, "names.yaml", "$.names", [bad |-> FALSE, items |-> l]) : l \in NameLists}
             \cup {Selection(FALSE, "names.yaml", "$.names", [bad |-> TRUE, items |-> <<>>])}
\* The package names file lists every name once.
ListMode == Selection(FALSE, "names.yaml", "$.names", [bad |-> FALSE, items |-> NameOrder])
AnyOptions == {Selection(s, f, p, NoFile) : s \in BOOLEAN, f \in {"", "names.yaml"},
                                            p \in {"", "$.names"}}
Triggers(n) == [t \in 1..n |-> Trigger(HttpsTemplate, "unset")]
ConfigDocs == {NoneDict, Dict(EmptyDict)}
              \cup {Dict([EmptyDict EXCEPT ![n] = e]) :
                        n \in Names, e \in {Null} \cup {Entry(Triggers(c)) : c \in 0..MaxTriggers}}
\* cli's --monitoring-config and the document found there.
NoConfig == [path |-> "", doc |-> NoneDict]
Config(doc) == [path |-> "config.yaml", doc |-> doc]
OneTrigger == Dict([EmptyDict EXCEPT !["p"] = Entry(Triggers(1))])
PushUrls == {"", "http://pushgateway"}
\* The indices where only the first one hosts anything.
OneIndexWorlds == {w \in Worlds : \A r \in w : r[1] = IndexOrder[1]}

InitRun ==
    /\ pc = IF entry = "cli" THEN "start" ELSE "pass"
    /\ exc = "" /\ status = "running"
    /\ sources = <<>> /\ i = 0 /\ candidates = <<>> /\ k = 0
    /\ package_versions = <<>> /\ j = 0
    /\ added = 0 /\ notified = 0
    /\ run = 1 /\ store0 = store /\ io = {} /\ pushes = 0 /\ retrieved = {}
    /\ create_calls = {} /\ log = <<>> /\ new_creates = 0 /\ new_notified = 0
    /\ last = NoLast /\ prev_completed = FALSE

\* A run of the command line: the indices' releases from W and broken listings
\* from B, the store from S, the package selection from Sel, the monitoring
\* configuration from Cfg and the push gateway from Urls.
InitCli(W, B, S, Sel, Cfg, Urls) ==
    /\ entry = "cli"
    /\ releases \in W /\ broken \in B /\ store \in S
    /\ \E sel \in Sel :
        /\ only_if_package_seen = sel.seen
        /\ package_names_file = sel.file
        /\ package_names_file_jsonpath = sel.jsonpath
        /\ file_names = sel.found
    /\ \E cfg \in Cfg :
        /\ monitoring_config = cfg.path
        /\ config_doc = cfg.doc
    /\ pushgateway_url \in Urls
    /\ package_names = NoneList /\ monitored_packages = NoneDict /\ seen_param = FALSE
    /\ InitRun

\* package_releases_update called directly, as a library function.
InitCall(W, B, S, Lists, Docs, Seen) ==
    /\ entry = "call"
    /\ releases \in W /\ broken \in B /\ store \in S
    /\ only_if_package_seen = FALSE /\ package_names_file = ""
    /\ package_names_file_jsonpath = "" /\ file_names = NoFile
    /\ monitoring_config = "" /\ config_doc = NoneDict /\ pushgateway_url = ""
    /\ package_names \in Lists /\ monitored_packages \in Docs /\ seen_param \in Seen
    /\ InitRun

\* Every world, with a broken listing or not, with every valid package selection.
InitEngine ==
    InitCli(Worlds, AtMostOne(Indexes \X Names), {{}},
            {CatalogMode, SeenMode, ListMode}, {Config(OneTrigger)}, {"http://pushgateway"})
\* Every package names file, over the worlds of one index.
InitLists ==
    InitCli(OneIndexWorlds, AtMostOne(Indexes \X Names), {{}},
            FileModes, {Config(OneTrigger)}, {"http://pushgateway"})
\* The worlds of one index, over a store that knows an entity already.
InitKnown ==
    InitCli(OneIndexWorlds, {{}}, {{e} : e \in Entities},
            {CatalogMode, SeenMode, ListMode}, {Config(OneTrigger)}, {"http://pushgateway"})
\* Every combination of the options, over one index that hosts two versions
\* of a package.
WidgetWorld == {<<IndexOrder[1], NameOrder[1], v>> : v \in Versions}
InitOptions ==
    InitCli({WidgetWorld}, {{}}, {{}}, AnyOptions \cup FileModes,
            {NoConfig, Config(OneTrigger)}, PushUrls)
\* Every monitoring configuration, with and without a push gateway.
InitMonitoring ==
    InitCli(OneIndexWorlds, {{}}, AtMostOne({<<NameOrder[1], VersionOrder[1], IndexOrder[1]>>}),
            {CatalogMode, SeenMode}, {NoConfig} \cup {Config(d) : d \in ConfigDocs}, PushUrls)
\* Direct calls that ask the store to create entries only for seen packages.
InitSeenCall ==
    InitCall(Worlds, {{}}, AtMostOne(Entities), {NoneList, List(NameOrder)},
             {OneTrigger}, {TRUE})

\* The triggers a configuration may hold: the https template with every
\* tls_verify setting, the others with the key missing or false.
TriggerKinds == {Trigger(HttpsTemplate, f) : f \in {"unset", "true", "false"}}
                    \cup {Trigger(u, f) : u \in {HttpTemplate, EnvTemplate},
                                          f \in {"unset", "false"}}
                    \cup {Trigger(UnknownFieldTemplate, "unset")}
TriggerLists == UNION {[1..n -> TriggerKinds] : n \in 0..MaxTriggers}
TriggerDocs == {Dict([EmptyDict EXCEPT
                        ![NameOrder[1]] = Entry(l),
                        ![NameOrder[2]] = Entry(<<Trigger(OtherTemplate, "unset")>>)]) :
                    l \in TriggerLists}
PairWorld == {<<IndexOrder[1], n, VersionOrder[1]>> : n \in Names}

\* The job over one index hosting one version of two monitored packages,
\* under every list of triggers.
InitTriggers ==
    InitCli({PairWorld}, {{}}, {{}}, {CatalogMode}, {Config(d) : d \in TriggerDocs}, {""})

Init == InitEngine \/ InitLists \/ InitKnown \/ InitOptions \/ InitMonitoring
        \/ InitSeenCall \/ InitTriggers

Spec == Init /\ [][Next]_vars

\* ------------------------------------------------------------ properties
PassBegun == "indexes" \in io
PassReturned == exc = "" /\ (pc = "finally" \/ (pc = "exit" /\ status = "ok"))
SeenNames(s) == {e[1] : e \in s}

\* C1: with a trigger configuration present, a create call that reports
\* existed_before = true leads to no call of the notification dispatcher and
\* no delivery attempt.
C1_KnownReleaseNotNotified ==
    (last.op = "create" /\ last.result = "existed" /\ TruthyDict(monitored_packages))
        => (~last.called /\ last.attempts = 0)

\* C2: at the end of a run whose pass returned, the "notified" metric is the
\* number of new entities for which at least one trigger delivery succeeded;
\* stated for the runs that start from an empty store, where every entity the
\* store returns the first time is new.
C2_NotifiedCountsDeliveredReleases ==
    (pc = "exit" /\ PassReturned /\ store0 = {}) => notified = new_notified

\* C3: a run that follows a completed run with the same options over the same
\* indices never increments the "added" metric.
C3_SecondRunAddsNothing ==
    (run > 1 /\ prev_completed) => added = 0

\* C3 witness: the second run is over, it issued create calls and added nothing.
C3_SecondRunCreatedAgain ==
    /\ run = 2 /\ prev_completed /\ pc = "exit" /\ status = "ok"
    /\ Cardinality(create_calls) >= 2
    /\ added = 0

\* C4: the "added" metric is the number of create calls that returned
\* existed_before = false, which is the number of entities the store holds now
\* and did not hold when the run started; None and existed_before = true
\* leave it alone.
C4_AddedCountsNewEntities ==
    /\ added = new_creates
    /\ new_creates = Cardinality(store \ store0)

\* C4 witness: an entity was added, and the last create call returned None.
C4_AddedThenSentinel ==
    last.op = "create" /\ last.result = "none" /\ added >= 1 /\ store0 # {}

\* C5: a failed version listing (NotFound or another error) moves the loop to
\* the next candidate of the index, or to the next index, with no exception;
\* and a pass that returned has listed the versions of every candidate of
\* every index and issued a create call for every version listed.
C5_ListingFailureIsolated ==
    /\ (last.op = "versions" /\ last.result \in {"NotFound", "Error"})
        => /\ exc = ""
           /\ IF last.at[2] < Len(candidates)
              THEN pc = "package" /\ i = last.at[1] /\ k = last.at[2] + 1
              ELSE pc = "index" /\ i = last.at[1] + 1
    /\ PassReturned =>
        \A url \in Indexes : \A name \in Range(Candidates(package_names, url)) :
            /\ <<url, name>> \in retrieved
            /\ \A v \in Range(GetPackageVersions(url, name).versions) :
                <<name, v, url>> \in create_calls

\* C5 witness: the listing of p failed on an index and q, which comes after
\* it there, had an entity created, as had a package of the next index.
C5_LaterPackageProcessed ==
    /\ PassReturned
    /\ LET a == IndexOrder[1]
           b == IndexOrder[2]
       IN  /\ <<a, "p">> \in retrieved
           /\ GetPackageVersions(a, "p").result # "ok"
           /\ \E v \in Versions : <<"q", v, a>> \in create_calls
           /\ \E n \in Names, v \in Versions : <<n, v, b>> \in create_calls

\* C6: once the pass iterates, no failure of a catalog listing, a version
\* listing, a create call or a delivery leaves the loop as an exception.
C6_NoFailureLeavesTheLoop ==
    last.op \in {"index", "versions", "create"} => (exc = "" /\ status # "error")

\* C7 as claimed: every run of cli that reaches the pass pushes the metrics
\* exactly once.
C7_AlwaysPushesOnce ==
    (entry = "cli" /\ pc = "exit" /\ PassBegun) => pushes = 1

\* C7 as amended: a run of cli that reaches the pass pushes the metrics exactly
\* once if a push gateway is configured and never otherwise, only after the
\* pass has returned or raised; whether the push fails changes nothing of how
\* the run ends.
C7_PushesOnceWhenConfigured ==
    /\ pc # "exit" => pushes = 0
    /\ (entry = "cli" /\ pc = "exit" /\ PassBegun)
        => /\ pushes = IF pushgateway_url # "" THEN 1 ELSE 0
           /\ status = IF exc = "" THEN "ok" ELSE "error"
    /\ (pc = "exit" /\ ~PassBegun) => pushes = 0

\* C7 witness: the pass returned, the one push failed and the run ended well.
C7_FailedPushIgnored ==
    /\ pc = "exit" /\ PassBegun /\ pushes = 1
    /\ last.op = "finally" /\ last.result = "push failed"
    /\ status = "ok"

\* C8: started with --only-if-package-seen, the candidates of every index are
\* the names the store knew at startup, and no index's catalog is enumerated.
C8_SeenModeUsesKnownNames ==
    (entry = "cli" /\ only_if_package_seen)
        => /\ "packages" \notin io
           /\ pc \in {"package", "version"} => candidates = KnownNames(store0)

\* C9: started with --only-if-package-seen, the store never holds an entity of
\* a package it did not know at startup, and every create call is made with
\* only_if_package_seen = true.
C9_SeenModeCreatesOnlySeen ==
    (entry = "cli" /\ only_if_package_seen)
        => /\ SeenNames(store) \subseteq SeenNames(store0)
           /\ last.op = "create" => last.only_if_seen

\* C10: with --only-if-package-seen and a package names file both given, cli
\* ends with a ValueError before any I/O: no file opened, no connection, no
\* index query, no store write, no notification, no push.
C10_BothSelectorsRejected ==
    (entry = "cli" /\ only_if_package_seen /\ package_names_file # "")
        => /\ pc \in {"start", "exit"}
           /\ io = {} /\ pushes = 0 /\ store = store0 /\ added = 0 /\ notified = 0
           /\ pc = "exit" =>
                /\ status = "error"
                /\ exc \in {"ValueError: JSON path required",
                            "ValueError: only one method allowed"}

\* C10 witness: both selectors and a JSONPath were given and cli refused them.
C10_RefusedBothSelectors ==
    /\ pc = "exit" /\ only_if_package_seen
    /\ package_names_file # "" /\ package_names_file_jsonpath # ""
    /\ exc = "ValueError: only one method allowed" /\ status = "error"

\* The startup faults: a refused combination of options, an empty list of
\* package names, a failed connection to the store, a monitoring
\* configuration that does not load.
StartupFaults == {"ValueError: JSON path without file", "ValueError: JSON path required",
                  "ValueError: only one method allowed", "SystemExit",
                  "connection error", "config error"}

\* The options that must end in a startup fault.
FaultyOptions ==
    \/ package_names_file_jsonpath # "" /\ package_names_file = ""
    \/ package_names_file_jsonpath = "" /\ package_names_file # ""
    \/ only_if_package_seen /\ package_names_file # ""
    \/ package_names_file # "" /\ file_names.items = <<>>

\* Nothing of the pass has happened in this run.
NothingDone ==
    /\ io \cap {"indexes", "packages", "versions", "create"} = {}
    /\ log = <<>> /\ create_calls = {} /\ retrieved = {}
    /\ store = store0 /\ added = 0 /\ notified = 0
    /\ last.attempts = 0 /\ last.posts = <<>> /\ pushes = 0

\* C11: each startup fault (a refused combination of options, among them a
\* JSON path without a file and a file without a JSON path, a monitoring
\* configuration that does not load, a failed connection to the store, an
\* empty list of package names) ends the process with a non-zero status before
\* the pass begins: no index is queried, no create call is made, no
\* notification is sent.
C11_StartupFaultEndsBeforePass ==
    /\ (entry = "cli" /\ exc \in StartupFaults /\ ~PassBegun)
        => (pc = "exit" /\ status \in {"error", "exit 2"} /\ NothingDone)
    /\ (entry = "cli" /\ pc # "start" /\ FaultyOptions)
        => (pc = "exit" /\ status \in {"error", "exit 2"} /\ NothingDone)
    /\ (entry = "cli" /\ PassBegun) => (exc \notin StartupFaults /\ ~FaultyOptions)

\* A run ended by a configuration that did not load, after the store was
\* connected.
C11_ConfigFaultEndedRun ==
    /\ entry = "cli" /\ pc = "exit" /\ exc = "config error"
    /\ status = "error" /\ io = {"connect", "config"}

\* The calls of release_notification this run made for an entity.
Dispatches(e) == {n \in 1..Len(log) : log[n].entity = e /\ log[n].called}

\* C12: within a run the dispatcher is invoked at most once for a (name,
\* version, index_url) tuple, and only at the create call that reported the
\* tuple as new, whatever names or versions the lists repeat.  Stated for
\* the runs that start on an empty store, where every tuple is new once.
C12_TupleDispatchedAtMostOnce ==
    store0 = {} =>
        /\ \A e \in {log[n].entity : n \in 1..Len(log)} : Cardinality(Dispatches(e)) <= 1
        /\ \A n \in 1..Len(log) : log[n].called => log[n].result = "new"

\* The triggers the configuration registers under a package name.
TriggersOf(name) == monitored_packages.entries[name].triggers

\* C13: for a new tuple of a package with triggers, release_notification
\* makes exactly one delivery attempt per trigger registered under that very
\* name, in their order, and none for a trigger of another name.
C13_OneAttemptPerOwnTrigger ==
    (last.op = "create" /\ last.result = "new" /\ TriggersOf(last.name) # <<>>)
        => /\ last.called /\ ~last.raised
           /\ last.attempts = Len(TriggersOf(last.name))
           /\ Len(last.posts) = Len(TriggersOf(last.name))
           /\ \A t \in 1..Len(last.posts) : last.posts[t].trigger = TriggersOf(last.name)[t]
           /\ \A t \in 1..Len(last.posts), n \in Names \ {last.name} :
                  \A u \in 1..Len(TriggersOf(n)) :
                      TriggersOf(n)[u] = last.posts[t].trigger
                          => \E w \in 1..Len(TriggersOf(last.name)) :
                                TriggersOf(last.name)[w] = TriggersOf(n)[u]

\* A new release of a package with two triggers, in a configuration that
\* also registers a trigger under the other name.
C13_TwoTriggersOfTwoNames ==
    /\ last.op = "create" /\ last.result = "new" /\ last.name = NameOrder[1]
    /\ Len(TriggersOf(NameOrder[1])) = 2 /\ Len(last.posts) = 2
    /\ TriggersOf(NameOrder[2]) # <<>>

\* The create calls the run made at position <<a, b, c>> for entity e.
CallsAt(a, b, c, e) == {n \in 1..Len(log) : log[n].at = <<a, b, c>> /\ log[n].entity = e}

\* C14: at the end of a run in which no store call failed, every version a
\* successful listing returned for every candidate of every enabled index
\* has exactly one create call at its position, and no create call names a
\* disabled index or a version its index did not return.
C14_OneCreatePerPosition ==
    (pc = "exit" /\ PassBegun /\ exc # "store error")
        => /\ \A a \in 1..Len(IndexOrder) :
                LET url == IndexOrder[a]
                    names == Candidates(package_names, url) IN
                \A b \in 1..Len(names) :
                    LET got == GetPackageVersions(url, names[b]) IN
                    got.result = "ok"
                        => \A c \in 1..Len(got.versions) :
                              Cardinality(CallsAt(a, b, c, <<names[b], got.versions[c], url>>)) = 1
           /\ \A n \in 1..Len(log) :
                LET e == log[n].entity IN
                /\ e[3] \in Indexes
                /\ <<e[3], e[1], e[2]>> \in releases
                /\ <<e[3], e[1]>> \notin broken

\* C15: in release_notification a failed delivery for a trigger (the POST
\* fails, the response is not a success, the URL does not render) neither
\* prevents the attempt for a later trigger nor leaves the function: it
\* returns a boolean after it went over every trigger.
C15_FailedDeliveryIsolated ==
    (last.op = "create" /\ last.called
        /\ monitored_packages.entries[last.name].kind # "null")
        => /\ ~last.raised
           /\ last.was_triggered \in BOOLEAN
           /\ Len(last.posts) = Len(TriggersOf(last.name))
           /\ \A t \in 1..Len(last.posts) :
                  /\ last.posts[t].outcome \in {"delivered", "failed", "render failed"}
                  /\ last.posts[t].posted
                        <=> Format(TriggersOf(last.name)[t].url,
                                   FormatArgs(last.name, last.version, last.url)).ok

\* The URL of the first trigger did not render, and the second trigger was
\* delivered.
C15_DeliveredAfterFailure ==
    /\ last.op = "create" /\ last.called /\ ~last.raised
    /\ Len(last.posts) = 2
    /\ last.posts[1].outcome = "render failed"
    /\ last.posts[2].outcome = "delivered"
    /\ last.was_triggered

C17_SentinelSkipsVersion ==
    /\ (last.op = "create" /\ last.result = "none")
        => /\ added = last.added0 /\ notified = last.notified0
           /\ ~last.called /\ last.attempts = 0 /\ last.posts = <<>>
           /\ ~last.raised /\ exc = ""
           /\ \A e \in store : e[1] # last.name
           /\ pc \in {"version", "package", "index"}
           /\ LET at == log[Len(log)].at IN
              IF pc = "version" THEN <<i, k, j>> = <<at[1], at[2], at[3] + 1>>
              ELSE IF pc = "package" THEN <<i, k>> = <<at[1], at[2] + 1>>
              ELSE i = at[1] + 1
    /\ (entry = "call" /\ pc = "exit" /\ PassReturned)
        => \A a \in 1..Len(IndexOrder) :
              LET url == IndexOrder[a]
                  names == Candidates(package_names, url) IN
              \A b \in 1..Len(names) :
                  LET got == GetPackageVersions(url, names[b]) IN
                  \A c \in 1..Len(got.versions) :
                      CallsAt(a, b, c, <<names[b], got.versions[c], url>>) # {}

\* The store returned the sentinel for a version of a monitored package that
\* has a further version to process.
C17_SentinelThenNextVersion ==
    /\ last.op = "create" /\ last.result = "none" /\ pc = "version"
    /\ TriggersOf(last.name) # <<>>

\* The verification requests.post performs: the verify argument, and
\* verification when none is passed.
Verifies(post) == IF post.verify = "none" THEN "true" ELSE post.verify

\* C18: for every delivery whose rendered URL, after the fields were
\* replaced, is an https URL, the certificate verification is the trigger's
\* tls_verify, enabled when the key is missing; for a rendered URL that is
\* not https no verify argument is passed.
C18_VerifyFollowsRenderedUrl ==
    last.op = "create"
        => \A t \in 1..Len(last.posts) :
              LET post == last.posts[t] IN
              post.posted
                  => IF StartsWithHttps(post.url)
                     THEN Verifies(post) = IF post.trigger.tls_verify = "unset" THEN "true"
                                           ELSE post.trigger.tls_verify
                     ELSE post.verify = "none"

\* C19: the store only grows.  In every state it holds what it held when
\* the run started, and every tuple the run added names an enabled index
\* and a version that index returned for that package name.
C19_StoreOnlyGrows ==
    /\ store0 \subseteq store
    /\ \A e \in store \ store0 :
          /\ e[3] \in Indexes /\ e[3] # DisabledIndex
          /\ <<e[3], e[1], e[2]>> \in releases
          /\ <<e[3], e[1]>> \notin broken
          /\ \E n \in 1..Len(log) : log[n].entity = e /\ log[n].result = "new"
    /\ \A n \in 1..Len(log) :
          log[n].result \in {"new", "existed"} => log[n].entity \in store

\* A run over a store that held a tuple added another one and kept the
\* first.
C19_AddedToKnownTuples ==
    /\ pc = "exit" /\ store0 # {} /\ store0 # store /\ store0 \subseteq store

====
